---- MODULE Spec2Model ----
(***************************************************************************)
(* PlaywrightSnap (snap.py): scroll-and-snap of web pages into tiles.      *)
(* The model follows one call of snap(): the session set-up, then for each *)
(* URL the navigation, the scroll container detection, the first tile, the *)
(* scroll-capture loop and the page manifest, and last the session         *)
(* manifest.  The browser is the environment: a loaded document with a     *)
(* window scroll offset and the scroll offsets of its container elements.  *)
(***************************************************************************)
EXTENDS Integers, Sequences, FiniteSets, TLC

(***************************************************************************)
(* Bounds and program constants                                            *)
(***************************************************************************)
MaxUrls == 2

max_tiles == 150

SettleMs == 250

DirnameLimit == 120

Max(a, b) == IF a >= b THEN a ELSE b

Min(a, b) == IF a <= b THEN a ELSE b

(***************************************************************************)
(* safe_dirname: URLs are sequences of one-character strings.              *)
(***************************************************************************)
AllowedChars ==
    {"a","b","c","d","e","f","g","h","i","j","k","l","m",
     "n","o","p","q","r","s","t","u","v","w","x","y","z",
     "A","B","C","D","E","F","G","H","I","J","K","L","M",
     "N","O","P","Q","R","S","T","U","V","W","X","Y","Z",
     "0","1","2","3","4","5","6","7","8","9",".","_","-"}

HttpPrefix == <<"h","t","t","p",":","/","/">>

HttpsPrefix == <<"h","t","t","p","s",":","/","/">>

HasPrefix(s, p) == Len(s) >= Len(p) /\ SubSeq(s, 1, Len(p)) = p

\* re.sub(r'^https?://', '', url)
StripScheme(s) ==
    IF HasPrefix(s, HttpPrefix) THEN SubSeq(s, Len(HttpPrefix) + 1, Len(s))
    ELSE IF HasPrefix(s, HttpsPrefix) THEN SubSeq(s, Len(HttpsPrefix) + 1, Len(s))
    ELSE s

\* a replacement of every disallowed character by its own "_"
SquashEach(s, inRun) ==
    [i \in 1..Len(s) |-> IF s[i] \in AllowedChars THEN s[i] ELSE "_"]

\* re.sub(r'[^a-zA-Z0-9._-]+', '_', name): every maximal run becomes one "_"
RECURSIVE SquashRuns(_, _)
SquashRuns(s, inRun) ==
    IF s = <<>> THEN <<>>
    ELSE IF Len(s) = 1
    THEN (IF s[1] \in AllowedChars THEN s ELSE IF inRun THEN <<>> ELSE <<"_">>)
    ELSE LET m == Len(s) \div 2
         IN  SquashRuns(SubSeq(s, 1, m), inRun)
                 \o SquashRuns(SubSeq(s, m + 1, Len(s)), s[m] \notin AllowedChars)

\* a sanitizer that forgets to truncate
safe_dirname_untruncated(u) == SquashRuns(StripScheme(u), FALSE)

safe_dirname(u) ==
    LET name == SquashRuns(StripScheme(u), FALSE)
    IN  SubSeq(name, 1, Min(Len(name), DirnameLimit))

\* f"tile_{idx:04d}.png": the decimal digits of idx, zero-padded to width 4
RECURSIVE Digits(_)
Digits(n) == IF n < 10 THEN <<n>> ELSE Digits(n \div 10) \o <<n % 10>>

RECURSIVE ZeroPad(_, _)
ZeroPad(ds, w) == IF Len(ds) >= w THEN ds ELSE ZeroPad(<<0>> \o ds, w)

TileName(idx) == <<"tile_">> \o ZeroPad(Digits(idx), 4) \o <<".png">>

TilePath(u, idx) == <<safe_dirname(u), "tiles", TileName(idx)>>

PageMetaPath(u) == <<safe_dirname(u), "page_meta.json">>

\* line 197: the name of the session manifest inside the session directory
MetaName == <<"m", "e", "t", "a", ".", "j", "s", "o", "n">>

MetaPath == <<MetaName>>

\* line 321
StitchedPath(u) == <<safe_dirname(u), "stitched.png">>

(***************************************************************************)
(* The browser: documents and their scroll surfaces.                       *)
(* A page is [kind, docHeight, winY0, els, busy]; els is the set of        *)
(* elements the candidate selectors match, each [sel, count, scrollHeight, *)
(* clientHeight, top0] with sel the 1-based index in feishu_selectors;     *)
(* busy says whether the page keeps the network busy, so that a wait for   *)
(* network idle may time out.                                              *)
(*   kind "static": offsets are clamped to [0, scrollHeight-clientHeight]  *)
(*   kind "mock"  : the test double, no bottom limit                       *)
(*   kind "drift" : the offset moves on every scroll, whatever is asked    *)
(***************************************************************************)
feishu_selectors ==
    << ".bear-web-x-container.catalogue-opened.docx-in-wiki",
       ".bear-web-x-container",
       ".docx-content",
       ".wiki-content",
       "[role='main']",
       "main",
       ".scrollable-container",
       ".content-container" >>

El(sel, sh, ch, top) ==
    [sel |-> sel, count |-> 1, scrollHeight |-> sh, clientHeight |-> ch, top0 |-> top]

Page(kind, docHeight, winY0, els, busy) ==
    [kind |-> kind, docHeight |-> docHeight, winY0 |-> winY0, els |-> els,
     busy |-> busy]

NoPage == Page("blank", 0, 0, {}, FALSE)

\* scale = 1.0, in hundredths
DefaultScale == 100

\* the document right after page.goto(u): a new document, with its own
\* offsets and no zoom set on its body
Load(pg) ==
    [page |-> pg, winY |-> pg.winY0, elY |-> [s \in {e.sel : e \in pg.els} |->
        (CHOOSE e \in pg.els : e.sel = s).top0], zoom |-> DefaultScale]

\* page.evaluate("document.body.style.zoom = scale") on the current document
SetZoom(d, sc) == [d EXCEPT !.zoom = sc]

ElOf(d, s) == CHOOSE e \in d.page.els : e.sel = s

Clamp(v, lo, hi) == Max(lo, Min(v, hi))

\* the test double: MockMouse.wheel adds delta_y; MockLocator.evaluate adds
\* the amount its pattern scrollBy\(\s*0,\s*(\d+)\s*\) finds, which is none
\* when the amount is written with a minus sign
MockMoved(pos, dy, wheel) == IF wheel \/ dy >= 0 THEN pos + dy ELSE pos

\* where a surface of the given kind ends up when asked to move by dy
Moved(kind, pos, dy, sh, ch, wheel) ==
    CASE kind = "static" -> Clamp(pos + dy, 0, Max(0, sh - ch))
      [] kind = "mock"   -> MockMoved(pos, dy, wheel)
      [] kind = "drift"  -> (pos + 1) % (Max(0, sh - ch) + 1)
      [] OTHER           -> pos

\* page.mouse.wheel(0, dy): scrolls the window
MouseWheel(d, dy, viewport_h) ==
    [d EXCEPT !.winY = Moved(d.page.kind, d.winY, dy, d.page.docHeight, viewport_h, TRUE)]

\* container.evaluate("el => el.scrollBy(0, dy)"): scrolls the element
ScrollBy(d, s, dy) ==
    [d EXCEPT !.elY[s] = Moved(d.page.kind, d.elY[s], dy,
                               ElOf(d, s).scrollHeight, ElOf(d, s).clientHeight, FALSE)]

(***************************************************************************)
(* The helpers of snap.py                                                  *)
(***************************************************************************)
\* a test that also takes a content that just fits its box
QualifiesNonStrict(pg, i) ==
    \E e \in pg.els : e.sel = i /\ e.count > 0 /\ e.scrollHeight >= e.clientHeight

\* the candidates that match an element whose content exceeds its box
Qualifies(pg, i) ==
    \E e \in pg.els : e.sel = i /\ e.count > 0 /\ e.scrollHeight > e.clientHeight

\* get_scroll_container: 0 stands for (None, "window"), i for selector i
get_scroll_container(pg) ==
    IF \E i \in DOMAIN feishu_selectors : Qualifies(pg, i)
    THEN CHOOSE i \in DOMAIN feishu_selectors :
            Qualifies(pg, i) /\ \A j \in 1..(i - 1) : ~Qualifies(pg, j)
    ELSE 0

SelectorLabel(c) == IF c = 0 THEN "window" ELSE feishu_selectors[c]

get_total_scroll_height(d, c) ==
    IF SelectorLabel(c) = "window" THEN d.page.docHeight ELSE ElOf(d, c).scrollHeight

\* a read that always asks the window
get_current_scroll_position_window(d, c) == d.winY

get_current_scroll_position(d, c) ==
    IF SelectorLabel(c) = "window" THEN d.winY ELSE d.elY[c]

\* a scroll_and_wait that lets the idle timeout escape
scroll_and_wait_fatal(d, c, scroll_amount, viewport_h, idleTimeout) ==
    [ doc     |-> IF SelectorLabel(c) = "window"
                  THEN MouseWheel(d, scroll_amount, viewport_h)
                  ELSE ScrollBy(d, c, scroll_amount),
      call    |-> [via |-> IF SelectorLabel(c) = "window" THEN "wheel" ELSE "scrollBy",
                   amount |-> scroll_amount],
      warned  |-> idleTimeout,
      settled |-> IF idleTimeout THEN 0 ELSE SettleMs,
      raised  |-> idleTimeout ]

\* scroll_and_wait: one relative scroll, the advisory network-idle wait, the
\* fixed settle delay.  idleTimeout says whether wait_for_load_state raised.
scroll_and_wait(d, c, scroll_amount, viewport_h, idleTimeout) ==
    [ doc     |-> IF SelectorLabel(c) = "window"
                  THEN MouseWheel(d, scroll_amount, viewport_h)
                  ELSE ScrollBy(d, c, scroll_amount),
      call    |-> [via |-> IF SelectorLabel(c) = "window" THEN "wheel" ELSE "scrollBy",
                   amount |-> scroll_amount],
      warned  |-> idleTimeout,
      settled |-> SettleMs,
      raised  |-> FALSE ]

\* line 251: step = max(1, viewport_h - tile_overlap), printed only
StepOf(viewport_h, tile_overlap) == Max(1, viewport_h - tile_overlap)

\* a scroll amount with the overlap added instead of subtracted
ScrollStepPlusOverlap(viewport_h, tile_overlap) == viewport_h + tile_overlap

\* a scroll amount that forgets the overlap
ScrollStepNoOverlap(viewport_h, tile_overlap) == viewport_h

\* line 274: the amount the loop scrolls by
ScrollStepOf(viewport_h, tile_overlap) == viewport_h - tile_overlap

\* an off-by-one in the loop condition
LoopGuardOffByOne(i) == i <= max_tiles + 1

\* line 277: while idx <= max_tiles
LoopGuard(i) == i <= max_tiles

\* a bottom test that never fires
StagnantNever(cur, prev) == FALSE

\* line 285: the bottom test
Stagnant(cur, prev) == cur = prev

\* an increment that is lost
NextIdxLost(i) == i

\* an increment that skips a number
NextIdxSkip(i) == i + 2

\* lines 271 and 299: idx += 1
NextIdx(i) == i + 1

\* line 301
CapReached(i) == i > max_tiles

\* a total height that forgets the cap
Uncapped(h, cap) == h

\* line 249: total_height = min(total_height, cap_height)
CappedHeight(h, cap) == Min(h, cap)

\* lines 310-317: the page manifest (its scale and wait entries are left out)
PageMeta(u, th, w, h, paths) ==
    [url |-> u, total_height |-> th, viewport |-> [width |-> w, height |-> h],
     tiles |-> paths]

\* a record that forgets the offset
TileRecordNoY(u, path, y, viewport_h) ==
    [url |-> u, tile |-> path, y |-> 0, height |-> viewport_h]

TileRecord(u, path, y, viewport_h) ==
    [url |-> u, tile |-> path, y |-> y, height |-> viewport_h]

NoImage == [w |-> 0, h |-> 0]

\* a floor-less effective height
EffHeightUnfloored(i, n, h, top, bottom) ==
    h - (IF i > 1 THEN top ELSE 0) - (IF i < n THEN bottom ELSE 0)

\* lines 108-114, for the i-th of n tiles (i from 1)
EffHeight(i, n, h, top, bottom) ==
    Max(1, h - (IF i > 1 THEN top ELSE 0) - (IF i < n THEN bottom ELSE 0))

RECURSIVE SumEff(_, _, _, _)
SumEff(tiles, i, top, bottom) ==
    IF i > Len(tiles) THEN 0
    ELSE EffHeight(i, Len(tiles), tiles[i].h, top, bottom) + SumEff(tiles, i + 1, top, bottom)

RECURSIVE MaxWidth(_, _)
MaxWidth(tiles, i) ==
    IF i = Len(tiles) THEN tiles[i].w ELSE Max(tiles[i].w, MaxWidth(tiles, i + 1))

\* a crop of both edges of every tile
CropBoxAlways(i, n, im, top, bottom) ==
    [left |-> 0, upper |-> top, right |-> im.w, lower |-> im.h - bottom]

\* lines 119-121
CropBox(i, n, im, top, bottom) ==
    [left |-> 0, upper |-> IF i > 1 THEN top ELSE 0,
     right |-> im.w, lower |-> im.h - (IF i < n THEN bottom ELSE 0)]

\* an emptiness test that never fires
NoTilesNever(tiles) == FALSE

\* line 101: not tiles
NoTiles(tiles) == tiles = <<>>

\* lines 116-125 in one piece: some tile's crop box is upside down, which the
\* imaging library either rejects or turns into an empty piece
InvertedCrop(tiles, top, bottom) ==
    \E i \in 1..Len(tiles) :
        LET box == CropBox(i, Len(tiles), tiles[i], top, bottom)
        IN  box.lower < box.upper

\* lines 103-116: the size of the canvas that is saved
StitchedImage(tiles, top, bottom) ==
    [w |-> MaxWidth(tiles, 1), h |-> SumEff(tiles, 1, top, bottom)]

(***************************************************************************)
(* Inputs: the URL lists, the options and the pages the web serves         *)
(***************************************************************************)
UrlA == HttpPrefix \o <<"a">>

UrlB == HttpsPrefix \o <<"a", "/", "?", "b">>

UrlC == <<"a", " ", "b">>

\* a URL whose directory name is the name of the session manifest
UrlM == HttpPrefix \o MetaName

UrlPool == {UrlA, UrlB, UrlC}

RECURSIVE SeqsUpTo(_, _)
SeqsUpTo(S, n) ==
    IF n = 0 THEN {<<>>}
    ELSE LET shorter == SeqsUpTo(S, n - 1)
         IN  shorter \cup {Append(q, x) : q \in {r \in shorter : Len(r) = n - 1}, x \in S}

UrlLists == SeqsUpTo(UrlPool, MaxUrls) \ {<<>>}

Opt(w, h, ov, cap, delay) ==
    [width |-> w, height |-> h, tile_overlap |-> ov, cap_height |-> cap,
     scroll_delay_ms |-> delay, scale |-> DefaultScale,
     stitch |-> FALSE, sticky_top |-> 0, sticky_bottom |-> 0]

\* the same options with a scale (in hundredths)
Scaled(o, sc) == [o EXCEPT !.scale = sc]

\* the same options with stitch=True and the two sticky crops
Stitched(o, top, bottom) ==
    [o EXCEPT !.stitch = TRUE, !.sticky_top = top, !.sticky_bottom = bottom]

Widths == {4}

Heights == {2, 3}

Overlaps == {0, 1, 2, 3}

CapHeights == {4, 50000}

ScrollDelays == {250, 350}

LoopOpts ==
    {Opt(w, h, ov, cap, dl) : w \in Widths, h \in Heights, ov \in Overlaps,
                              cap \in CapHeights, dl \in ScrollDelays}
        \cup {Scaled(Opt(4, 2, 0, 50000, 350), 150)}

SessionOpts == {Opt(4, 2, 0, 4, 350)}

\* runs that stitch, with crops below and above the tile height
OutputUrlLists == SeqsUpTo({UrlA, UrlM}, MaxUrls) \ {<<>>}

OutputOpts ==
    {Opt(4, 3, 1, 50000, 350)}
        \cup {Stitched(Opt(4, 3, 1, 50000, 350), top, bottom) :
                top \in {0, 1, 4}, bottom \in {0, 1}}

\* documents scrolled through the window (no candidate container qualifies)
WindowPages ==
    {Page("static", dh, y0, {}, TRUE) : dh \in {4, 7}, y0 \in {0, 1}}
        \cup {Page("mock", 7, 0, {}, TRUE)}

\* documents with a scrollable container at "main" (6) behind a ".docx-content"
\* (3) whose content fits its box
ContainerPages ==
    {Page(k, 3, 0, {El(3, 2, 2, 0), El(6, 5, 2, t)}, TRUE) :
        k \in {"static", "mock", "drift"}, t \in {0, 1}}
        \ {Page("mock", 3, 0, {El(3, 2, 2, 0), El(6, 5, 2, 1)}, TRUE),
           Page("drift", 3, 0, {El(3, 2, 2, 0), El(6, 5, 2, 0)}, TRUE)}

LoopPages == WindowPages \cup ContainerPages

SessionPages ==
    {Page("static", 7, 0, {}, TRUE),
     Page("static", 3, 0, {El(3, 2, 2, 0), El(6, 5, 2, 1)}, FALSE),
     Page("drift", 3, 0, {El(3, 2, 2, 0), El(6, 5, 2, 1)}, FALSE)}

OutputPages ==
    {Page("static", 7, 0, {}, FALSE), Page("static", 3, 0, {}, FALSE)}

(***************************************************************************)
(* State                                                                   *)
(***************************************************************************)
VARIABLES
    url,                 \* snap's url argument
    opt,                 \* snap's other arguments
    web,                 \* the pages a navigation may load
    pc,                  \* where snap is
    ui,                  \* index in url of the URL being processed
    doc,                 \* the document in the page and its scroll offsets
    container,           \* get_scroll_container's result (0: window)
    total_height,
    step,
    scroll_step,
    tile_paths,
    idx,
    previous_scroll_pos,
    current_scroll_pos,
    meta,                \* the session's meta dict
    fs,                  \* files written: path -> [writes, data]
    obs,                 \* what the current URL's loop did and printed
    viewport,            \* the viewport size set on the page
    dn,                  \* a call of safe_dirname on its own
    rs,                  \* a call of get_scroll_container on its own
    st                   \* a call of stitch_tiles on its own

vars == <<url, opt, web, pc, ui, doc, container, total_height, step, scroll_step,
          tile_paths, idx, previous_scroll_pos, current_scroll_pos, meta, fs, obs,
          viewport, dn, rs, st>>

inputs == <<url, opt, web>>

units == <<dn, rs, st>>

NoUnit == [at |-> "idle"]

UnitsIdle == dn = NoUnit /\ rs = NoUnit /\ st = NoUnit

loopvars == <<container, total_height, step, scroll_step, tile_paths, idx,
              previous_scroll_pos, current_scroll_pos>>

NoCall == [via |-> "none", amount |-> 0, warned |-> FALSE, settled |-> 0,
           before |-> 0, after |-> 0]

NoObs == [scrolls |-> 0, last |-> NoCall, first_y |-> 0, exit |-> "none",
          warn_max |-> FALSE]

WriteFile(f, path, data) ==
    [p \in DOMAIN f \cup {path} |->
        IF p = path
        THEN [writes |-> (IF path \in DOMAIN f THEN f[path].writes ELSE 0) + 1,
              data |-> data]
        ELSE f[p]]

\* page.screenshot(path=...): the picture is the document at its offsets
\* and zoom, as large as the viewport vp
Screenshot(f, path, d, vp) ==
    WriteFile(f, path, [winY |-> d.winY, elY |-> d.elY, zoom |-> d.zoom,
                        w |-> vp.width, h |-> vp.height])

\* a failed screenshot that takes the URL's earlier tiles with it
FailedScreenshotRollsBack(f, path) ==
    [p \in {q \in DOMAIN f : Len(q) # 3 \/ q[1] # path[1]} |-> f[p]]

\* page.screenshot(path=...) raising: no file is written
FailedScreenshot(f, path) == f

InitState ==
    /\ pc = "start"
    /\ ui = 0
    /\ doc = Load(NoPage)
    /\ container = 0
    /\ total_height = 0
    /\ step = 0
    /\ scroll_step = 0
    /\ tile_paths = <<>>
    /\ idx = 0
    /\ previous_scroll_pos = -1
    /\ current_scroll_pos = 0
    /\ meta = [urls |-> <<>>, tiles |-> <<>>]
    /\ fs = [p \in {} |-> 0]
    /\ obs = NoObs
    /\ viewport = [width |-> 0, height |-> 0]
    /\ UnitsIdle

\* one URL, every geometry and every surface
InitLoop ==
    /\ url \in {<<u>> : u \in {UrlA}}
    /\ opt \in LoopOpts
    /\ web = LoopPages
    /\ InitState

\* sessions of up to MaxUrls URLs
InitSession ==
    /\ url \in UrlLists
    /\ opt \in SessionOpts
    /\ web = SessionPages
    /\ InitState

\* sessions that stitch, and a URL directory named like the manifest
InitOutput ==
    /\ url \in OutputUrlLists
    /\ opt \in OutputOpts
    /\ web = OutputPages
    /\ InitState

Init == InitLoop \/ InitSession \/ InitOutput

(***************************************************************************)
(* snap()                                                                  *)
(***************************************************************************)
\* lines 193-226: session directory, meta, browser, page, viewport, zoom of
\* the page's first (blank) document
Launch ==
    /\ pc = "start"
    /\ meta' = [urls |-> url, tiles |-> <<>>]
    /\ ui' = 1
    /\ viewport' = [width |-> opt.width, height |-> opt.height]
    /\ doc' = IF opt.scale # DefaultScale THEN SetZoom(doc, opt.scale) ELSE doc
    /\ pc' = IF Len(url) >= 1 THEN "goto" ELSE "close"
    /\ UNCHANGED <<inputs, units, loopvars, fs, obs>>

\* lines 228-241: for u in url: directories, page.goto (which may raise)
Goto ==
    /\ pc = "goto"
    /\ \/ \E pg \in web :
            /\ doc' = Load(pg)
            /\ pc' = "resolve"
            /\ obs' = NoObs
       \/ /\ pc' = "failed"
          /\ obs' = [NoObs EXCEPT !.exit = "navigation error"]
          /\ UNCHANGED doc
    /\ UNCHANGED <<inputs, units, viewport, ui, loopvars, meta, fs>>

\* lines 244-261: container, total height, step, loop variables
Resolve ==
    /\ pc = "resolve"
    /\ container' = get_scroll_container(doc.page)
    /\ total_height' = CappedHeight(get_total_scroll_height(doc, container'),
                                     opt.cap_height)
    /\ step' = StepOf(opt.height, opt.tile_overlap)
    /\ tile_paths' = <<>>
    /\ idx' = 1
    /\ previous_scroll_pos' = -1
    /\ pc' = "first"
    /\ UNCHANGED <<inputs, units, viewport, ui, doc, scroll_step, current_scroll_pos, meta, fs, obs>>

\* lines 264-274: the first tile, then scroll_step
CaptureFirst ==
    /\ pc = "first"
    /\ LET u   == url[ui]
           pos == get_current_scroll_position(doc, container)
           tp  == TilePath(u, idx)
       IN  /\ current_scroll_pos' = pos
           /\ \/ /\ fs' = Screenshot(fs, tp, doc, viewport)
                 /\ tile_paths' = Append(tile_paths, tp)
                 /\ meta' = [meta EXCEPT !.tiles = Append(@, TileRecord(u, tp, pos, opt.height))]
                 /\ previous_scroll_pos' = pos
                 /\ idx' = NextIdx(idx)
                 /\ scroll_step' = ScrollStepOf(opt.height, opt.tile_overlap)
                 /\ obs' = [obs EXCEPT !.first_y = pos]
                 /\ pc' = "loop"
              \/ /\ fs' = FailedScreenshot(fs, tp)
                 /\ obs' = [obs EXCEPT !.exit = "screenshot error"]
                 /\ pc' = "failed"
                 /\ UNCHANGED <<tile_paths, meta, previous_scroll_pos, idx, scroll_step>>
    /\ UNCHANGED <<inputs, units, viewport, ui, doc, container, total_height, step>>

\* lines 277-299: one iteration of the while loop
LoopStep ==
    /\ pc = "loop"
    /\ LoopGuard(idx)
    /\ \E idleTimeout \in (IF doc.page.busy THEN BOOLEAN ELSE {FALSE}) :
         LET u   == url[ui]
             r   == scroll_and_wait(doc, container, scroll_step, opt.height, idleTimeout)
             pos == get_current_scroll_position(r.doc, container)
             tp  == TilePath(u, idx)
             o   == [obs EXCEPT !.scrolls = @ + 1,
                                !.last = [via |-> r.call.via, amount |-> r.call.amount,
                                          warned |-> r.warned, settled |-> r.settled,
                                          before |-> get_current_scroll_position(doc, container),
                                          after |-> pos]]
         IN  /\ doc' = r.doc
             /\ IF r.raised
                THEN /\ pc' = "failed"
                     /\ obs' = o
                     /\ UNCHANGED <<current_scroll_pos, fs, tile_paths, meta,
                                    previous_scroll_pos, idx>>
                ELSE /\ current_scroll_pos' = pos
                     /\ IF Stagnant(pos, previous_scroll_pos)
                        THEN /\ pc' = "after"
                             /\ obs' = [o EXCEPT !.exit = "stagnation"]
                             /\ UNCHANGED <<fs, tile_paths, meta, previous_scroll_pos, idx>>
                        ELSE \/ /\ fs' = Screenshot(fs, tp, r.doc, viewport)
                                /\ tile_paths' = Append(tile_paths, tp)
                                /\ meta' = [meta EXCEPT !.tiles =
                                              Append(@, TileRecord(u, tp, pos, opt.height))]
                                /\ previous_scroll_pos' = pos
                                /\ idx' = NextIdx(idx)
                                /\ obs' = o
                                /\ pc' = "loop"
                             \/ /\ fs' = FailedScreenshot(fs, tp)
                                /\ obs' = [o EXCEPT !.exit = "screenshot error"]
                                /\ pc' = "failed"
                                /\ UNCHANGED <<tile_paths, meta, previous_scroll_pos, idx>>
    /\ UNCHANGED <<inputs, units, viewport, ui, container, total_height, step, scroll_step>>

\* line 277: the loop condition fails
LoopExit ==
    /\ pc = "loop"
    /\ ~LoopGuard(idx)
    /\ pc' = "after"
    /\ obs' = [obs EXCEPT !.exit = "cap"]
    /\ UNCHANGED <<inputs, units, viewport, ui, doc, loopvars, meta, fs>>

\* lines 301-323: the cap warning, page_meta.json, the stitched picture when
\* asked for, on to the next URL.  stitch_tiles reads the tile files back;
\* an upside-down crop box makes the imaging library raise (or, in builds
\* that accept it, yield an empty piece), and the error leaves snap().
FinishUrl ==
    /\ pc = "after"
    /\ LET u == url[ui]
           withMeta == WriteFile(fs, PageMetaPath(u),
                                 PageMeta(u, total_height, opt.width, opt.height,
                                          tile_paths))
           tiles == [i \in 1..Len(tile_paths) |->
                        [w |-> withMeta[tile_paths[i]].data.w,
                         h |-> withMeta[tile_paths[i]].data.h]]
           warned == [obs EXCEPT !.warn_max = CapReached(idx), !.last = NoCall]
       IN  IF opt.stitch /\ tile_paths # <<>>
           THEN \/ /\ fs' = WriteFile(withMeta, StitchedPath(u),
                                      StitchedImage(tiles, opt.sticky_top,
                                                    opt.sticky_bottom))
                   /\ obs' = warned
                   /\ ui' = ui + 1
                   /\ pc' = IF ui < Len(url) THEN "goto" ELSE "close"
                \/ /\ InvertedCrop(tiles, opt.sticky_top, opt.sticky_bottom)
                   /\ fs' = withMeta
                   /\ obs' = [warned EXCEPT !.exit = "stitch error"]
                   /\ ui' = ui
                   /\ pc' = "failed"
           ELSE /\ fs' = withMeta
                /\ obs' = warned
                /\ ui' = ui + 1
                /\ pc' = IF ui < Len(url) THEN "goto" ELSE "close"
    /\ UNCHANGED <<inputs, units, viewport, doc, loopvars, meta>>

\* line 232 made a directory of every URL's name in the session directory
IsDirectory(name) == \E k \in 1..Len(url) : k < ui /\ safe_dirname(url[k]) = name

\* lines 325-336: close the browser, write meta.json; open() raises when a
\* URL's directory has taken the manifest's name
Finish ==
    /\ pc = "close"
    /\ IF IsDirectory(MetaName)
       THEN /\ fs' = fs
            /\ obs' = [obs EXCEPT !.exit = "meta.json is a directory"]
            /\ pc' = "failed"
       ELSE /\ fs' = WriteFile(fs, MetaPath, meta)
            /\ obs' = obs
            /\ pc' = "done"
    /\ UNCHANGED <<inputs, units, viewport, ui, doc, loopvars, meta>>

\* nothing of snap() is running
SnapIdle ==
    /\ url = <<>>
    /\ opt = Opt(0, 0, 0, 0, 0)
    /\ web = {}
    /\ pc = "idle"
    /\ ui = 0
    /\ doc = Load(NoPage)
    /\ container = 0
    /\ total_height = 0
    /\ step = 0
    /\ scroll_step = 0
    /\ tile_paths = <<>>
    /\ idx = 0
    /\ previous_scroll_pos = -1
    /\ current_scroll_pos = 0
    /\ meta = [urls |-> <<>>, tiles |-> <<>>]
    /\ fs = [p \in {} |-> 0]
    /\ obs = NoObs
    /\ viewport = [width |-> 0, height |-> 0]

snapvars == <<url, opt, web, pc, ui, doc, container, total_height, step, scroll_step,
              tile_paths, idx, previous_scroll_pos, current_scroll_pos, meta, fs, obs,
              viewport>>

Next == Launch \/ Goto \/ Resolve \/ CaptureFirst \/ LoopStep \/ LoopExit
            \/ FinishUrl \/ Finish

Spec == Init /\ [][Next]_vars

(***************************************************************************)
(* safe_dirname on its own: the inputs are a scheme part, a short head, a  *)
(* long filling of one character and a short tail, so that both the runs   *)
(* and the truncation at 120 characters occur.                             *)
(***************************************************************************)
MaxHead == 2

DirnameAlphabet == {"a", "/", " "}

Rep(c, n) == [i \in 1..n |-> c]

SchemeParts ==
    {<<>>, HttpPrefix, HttpsPrefix, HttpPrefix \o HttpsPrefix, <<"x">> \o HttpPrefix,
     <<"H","T","T","P",":","/","/">>}

Tails == {<<>>, <<"a">>, <<"/">>, <<" ">>, <<"/", " ">>}

Fillings == {<<>>} \cup {Rep(c, n) : c \in {"a", "/"}, n \in {119, 121}}

DirnameInputs ==
    {sc \o h \o f \o t : sc \in SchemeParts, h \in SeqsUpTo(DirnameAlphabet, MaxHead),
                          f \in Fillings, t \in Tails}

InitDirname ==
    /\ SnapIdle
    /\ rs = NoUnit
    /\ st = NoUnit
    /\ dn \in {[at |-> "called", arg |-> u] : u \in DirnameInputs}

\* lines 14-17: the call runs to its return
DirnameCall ==
    /\ dn.at = "called"
    /\ dn' = [at |-> "returned", arg |-> dn.arg, out |-> safe_dirname(dn.arg)]
    /\ UNCHANGED <<snapvars, rs, st>>

NextDirname == DirnameCall

SpecDirname == InitDirname /\ [][NextDirname]_vars

(***************************************************************************)
(* stitch_tiles on its own.  A tile file is its image size; opening a file *)
(* and saving the result may fail, as the file system decides.             *)
(***************************************************************************)
MaxStitchTiles == 3

TileImages == {[w |-> w, h |-> h] : w \in {1, 2}, h \in {1, 3}}

StickyCrops == {0, 1, 3}

StitchCall(tiles, top, bottom) ==
    [at |-> "called", tiles |-> tiles, top |-> top, bottom |-> bottom, open |-> {},
     canvas |-> NoImage, i |-> 0, y_offset |-> 0, pieces |-> <<>>, saved |-> NoImage,
     err |-> ""]

InitStitch ==
    /\ SnapIdle
    /\ dn = NoUnit
    /\ rs = NoUnit
    /\ st \in {StitchCall(t, top, bottom) : t \in SeqsUpTo(TileImages, MaxStitchTiles),
                                            top \in StickyCrops, bottom \in StickyCrops}

\* line 97: the tiles are opened in order; a file that cannot be opened raises
\* and leaves the earlier ones open
StitchOpen ==
    /\ st.at = "called"
    /\ \/ st' = [st EXCEPT !.at = "opened", !.open = DOMAIN st.tiles]
       \/ \E k \in DOMAIN st.tiles :
             st' = [st EXCEPT !.at = "raised", !.open = 1..(k - 1), !.err = "cannot open tile"]
    /\ UNCHANGED <<snapvars, dn, rs>>

\* lines 98-116: sizes, the emptiness test, the canvas
StitchCanvas ==
    /\ st.at = "opened"
    /\ IF NoTiles(st.tiles)
       THEN st' = [st EXCEPT !.at = "raised", !.err = "No tiles to stitch"]
       ELSE IF Len(st.tiles) = 0
       THEN st' = [st EXCEPT !.at = "raised", !.err = "max() arg is an empty sequence"]
       ELSE st' = [st EXCEPT !.at = "pasting", !.i = 1,
                             !.canvas = [w |-> MaxWidth(st.tiles, 1),
                                         h |-> SumEff(st.tiles, 1, st.top, st.bottom)]]
    /\ UNCHANGED <<snapvars, dn, rs>>

\* lines 118-123, one tile: a box whose lower edge is above its upper edge
\* raises in some builds of the imaging library and gives an empty piece in
\* others
StitchPaste ==
    /\ st.at = "pasting"
    /\ st.i <= Len(st.tiles)
    /\ LET box == CropBox(st.i, Len(st.tiles), st.tiles[st.i], st.top, st.bottom)
           ph == Max(0, box.lower - box.upper)
           pasted == [st EXCEPT !.i = st.i + 1, !.y_offset = st.y_offset + ph,
                                !.pieces = Append(st.pieces,
                                                  [y |-> st.y_offset, w |-> box.right - box.left,
                                                   h |-> ph, box |-> box])]
       IN  \/ st' = pasted
           \/ /\ box.lower < box.upper
              /\ st' = [st EXCEPT !.at = "raised", !.err = "cannot crop"]
    /\ UNCHANGED <<snapvars, dn, rs>>

\* line 125
StitchSave ==
    /\ st.at = "pasting"
    /\ st.i > Len(st.tiles)
    /\ \/ st' = [st EXCEPT !.at = "saved", !.saved = st.canvas]
       \/ st' = [st EXCEPT !.at = "raised", !.err = "cannot save"]
    /\ UNCHANGED <<snapvars, dn, rs>>

\* lines 126-127
StitchClose ==
    /\ st.at = "saved"
    /\ st' = [st EXCEPT !.at = "returned", !.open = {}]
    /\ UNCHANGED <<snapvars, dn, rs>>

NextStitch ==
    \/ StitchOpen
    \/ StitchCanvas
    \/ StitchPaste
    \/ StitchSave
    \/ StitchClose

SpecStitch == InitStitch /\ [][NextStitch]_vars

(***************************************************************************)
(* get_scroll_container on its own: a loaded page whose DOM gives each of  *)
(* the 8 candidates no element, an element whose content fits its box, or  *)
(* an element whose content exceeds it.                                    *)
(***************************************************************************)
DomShapes == {"absent", "fits", "scrolls"}

DomOf(f) ==
    {El(i, IF f[i] = "scrolls" THEN 5 ELSE 2, 2, 0) :
        i \in {j \in DOMAIN feishu_selectors : f[j] # "absent"}}

ResolvePages ==
    {Page("static", 3, 0, DomOf(f), FALSE) : f \in [DOMAIN feishu_selectors -> DomShapes]}

InitResolve ==
    /\ SnapIdle
    /\ dn = NoUnit
    /\ st = NoUnit
    /\ rs \in {[at |-> "called", page |-> pg] : pg \in ResolvePages}

\* lines 21-46: the call runs to its return
ResolveCall ==
    /\ rs.at = "called"
    /\ LET c == get_scroll_container(rs.page)
       IN  rs' = [at |-> "returned", page |-> rs.page, out |-> c,
                  label |-> SelectorLabel(c)]
    /\ UNCHANGED <<snapvars, dn, st>>

NextResolve == ResolveCall

SpecResolve == InitResolve /\ [][NextResolve]_vars

(***************************************************************************)
(* Properties                                                              *)
(***************************************************************************)
\* the tile records of the URL being processed: the tail of meta.tiles
UrlTiles ==
    SubSeq(meta.tiles, Len(meta.tiles) - Len(tile_paths) + 1, Len(meta.tiles))

\* the tile files on disk
TileFiles(f) == [p \in {q \in DOMAIN f : Len(q) = 3} |-> f[p]]

\* the offset of the surface the loop scrolls, read off the document itself
TargetOffset(d, c) == IF c = 0 THEN d.winY ELSE d.elY[c]

\* a step of the loop that issued a scroll
ScrollStepTaken == pc = "loop" /\ obs'.scrolls = obs.scrolls + 1

InLoop == pc \in {"loop", "after"}

\* C1: a scroll step whose read position equals the y of the most recently
\* captured tile ends the loop for that URL and produces no screenshot, no
\* tile file and no tile record; once stagnation is detected, no tile is
\* captured for that URL.
C1_StagnationStopsWithoutTile ==
    [][ /\ (ScrollStepTaken /\ current_scroll_pos' = UrlTiles[Len(UrlTiles)].y)
            => /\ pc' = "after"
               /\ obs'.exit = "stagnation"
               /\ tile_paths' = tile_paths
               /\ meta' = meta
               /\ fs' = fs
        /\ (obs.exit = "stagnation" /\ obs'.exit = "stagnation")
            => /\ tile_paths' = tile_paths
               /\ meta'.tiles = meta.tiles
               /\ TileFiles(fs') = TileFiles(fs) ]_vars

C1_Witness ==
    /\ pc = "after"
    /\ obs.exit = "stagnation"
    /\ Len(tile_paths) >= 2
    /\ current_scroll_pos = UrlTiles[Len(UrlTiles)].y

\* C2: the number of tiles of a URL never exceeds max_tiles, whatever the
\* surface does; the max-tiles warning is printed exactly when the count
\* reached max_tiles, and then page_meta.json holds all the tiles captured
\* and the run goes on with the next URL.
C2_TileCap ==
    /\ Len(tile_paths) <= max_tiles
    /\ obs.warn_max => Len(tile_paths) = max_tiles
    /\ (pc \in {"goto", "close"} /\ ui > 1)
        => /\ obs.warn_max <=> (Len(tile_paths) = max_tiles)
           /\ PageMetaPath(url[ui - 1]) \in DOMAIN fs
           /\ fs[PageMetaPath(url[ui - 1])].data.tiles = tile_paths
           /\ Len(UrlTiles) = Len(tile_paths)
           /\ \A i \in 1..Len(tile_paths) : tile_paths[i] \in DOMAIN fs
           /\ (pc = "goto") <=> (ui <= Len(url))

C2_Witness ==
    /\ pc = "goto"
    /\ ui = 2
    /\ obs.warn_max
    /\ Len(tile_paths) = max_tiles
    /\ obs.exit = "cap"

\* C3: the loop of a URL ends after at most max_tiles - 1 scroll steps: every
\* iteration issues one scroll and advances idx, and with max_tiles - 1
\* scrolls issued only the exit of the loop is left.
C3_LoopTerminates ==
    /\ obs.scrolls <= max_tiles - 1
    /\ pc = "loop" => /\ obs.scrolls = idx - 2
                      /\ obs.scrolls = max_tiles - 1
                            => (ENABLED LoopExit /\ ~ENABLED LoopStep)
    /\ pc = "after" => obs.exit \in {"stagnation", "cap"}

C3_Witness ==
    /\ pc = "after"
    /\ obs.exit = "cap"
    /\ obs.scrolls = max_tiles - 1
    /\ opt.tile_overlap > opt.height

\* C4: the relative scroll issued in every step of the loop is
\* max(1, viewport_height - overlap), hence at least 1.
C4_DeltaIsClampedStep ==
    obs.last.via # "none"
        => /\ obs.last.amount = Max(1, opt.height - opt.tile_overlap)
           /\ obs.last.amount >= 1

\* a surface that moves in the direction asked and by at most the amount asked
Obedient(pg) == pg.kind \in {"static", "mock"}

\* C5: on an obedient surface the y values of a URL's tile records are
\* non-decreasing in capture order.
C5_YNonDecreasing ==
    (InLoop /\ Obedient(doc.page))
        => \A i \in 1..(Len(UrlTiles) - 1) : UrlTiles[i + 1].y >= UrlTiles[i].y

\* C6: no tile of a URL is captured at a scroll offset beyond total_height,
\* the content height capped by cap_height.
C6_CapBoundsOffsets ==
    InLoop => \A i \in 1..Len(UrlTiles) : UrlTiles[i].y <= total_height

\* C7: a network-idle wait that times out is advisory: the settle delay is
\* still waited, the scroll is issued once and stays, and the loop reads the
\* position and captures or stops as after a wait that succeeded.
C7_IdleTimeoutAdvisory ==
    [][ (ScrollStepTaken /\ obs'.last.warned)
          => /\ obs'.last.settled = SettleMs
             /\ doc' = scroll_and_wait(doc, container, scroll_step, opt.height, FALSE).doc
             /\ current_scroll_pos' = TargetOffset(doc', container)
             /\ \/ /\ current_scroll_pos' = previous_scroll_pos
                   /\ pc' = "after"
                   /\ tile_paths' = tile_paths
                \/ /\ current_scroll_pos' # previous_scroll_pos
                   /\ pc' = "loop"
                   /\ tile_paths' = Append(tile_paths, TilePath(url[ui], idx))
                   /\ meta'.tiles[Len(meta'.tiles)].y = current_scroll_pos'
                   /\ previous_scroll_pos' = current_scroll_pos'
                \/ /\ current_scroll_pos' # previous_scroll_pos
                   /\ pc' = "failed"
                   /\ tile_paths' = tile_paths ]_vars

C7_Witness ==
    /\ pc = "loop"
    /\ obs.last.warned
    /\ obs.last.settled = SettleMs
    /\ obs.last.after # obs.last.before
    /\ Len(tile_paths) >= 2

\* C8: the settle delay waited after each scroll step is scroll_delay_ms.
C8_SettleIsScrollDelay ==
    obs.last.via # "none" => obs.last.settled = opt.scroll_delay_ms

\* C9: scroll_and_wait issues exactly one relative scroll of scroll_amount,
\* by mouse wheel on the page for "window" and by scrollBy on the container
\* otherwise; on the surface without bottom limit the position after the call
\* is the position before plus scroll_amount.
C9_OneRelativeScroll ==
    [][ ScrollStepTaken
          => /\ obs'.last.amount = scroll_step
             /\ obs'.last.via = IF container = 0 THEN "wheel" ELSE "scrollBy"
             /\ container = 0 => doc'.elY = doc.elY
             /\ container # 0 => /\ doc'.winY = doc.winY
                                 /\ \A s \in DOMAIN doc.elY \ {container} :
                                        doc'.elY[s] = doc.elY[s]
             /\ doc.page.kind = "mock"
                  => TargetOffset(doc', container)
                        = TargetOffset(doc, container) + scroll_step ]_vars

\* C10: tile #1 of a URL is captured before any scroll is issued, with the
\* scroll offset of that moment as its y, zero or not; a URL in its loop or
\* past it has at least one tile.
C10_FirstTileUnconditional ==
    /\ pc = "first" => (obs.scrolls = 0 /\ ENABLED CaptureFirst)
    /\ InLoop
        => /\ Len(tile_paths) >= 1
           /\ tile_paths[1] = TilePath(url[ui], 1)
           /\ tile_paths[1] \in DOMAIN fs
           /\ UrlTiles[1].y = TargetOffset(fs[tile_paths[1]].data, container)
           /\ UrlTiles[1].y = obs.first_y
    /\ (pc = "loop" /\ obs.scrolls = 0)
        => /\ Len(tile_paths) = 1
           /\ UrlTiles[1].y = TargetOffset(doc, container)
           /\ doc = Load(doc.page)

C10_Witness ==
    /\ pc = "loop"
    /\ obs.scrolls = 0
    /\ Len(tile_paths) = 1
    /\ UrlTiles[1].y = 1
    /\ TargetOffset(doc, container) = 1

\* the four digits of k, as tile_%04d prints them for k < 10000
FourDigits(k) == <<k \div 1000, (k \div 100) % 10, (k \div 10) % 10, k % 10>>

\* C11: the k-th tile of a URL is written to tiles/tile_<k as 4 digits>.png
\* in that URL's directory: numbers start at 1, none is skipped or reused, a
\* stagnation step consumes none, and numbering restarts for the next URL.
C11_TileNumbersContiguous ==
    InLoop
        => /\ idx = Len(tile_paths) + 1
           /\ \A k \in 1..Len(tile_paths) :
                /\ tile_paths[k] = <<safe_dirname(url[ui]), "tiles",
                                     <<"tile_">> \o FourDigits(k) \o <<".png">>>>
                /\ UrlTiles[k].tile = tile_paths[k]
                /\ UrlTiles[k].url = url[ui]
                /\ tile_paths[k] \in DOMAIN fs
           /\ \A j, k \in 1..Len(tile_paths) : j # k => tile_paths[j] # tile_paths[k]

C11_Witness ==
    /\ pc = "after"
    /\ obs.exit = "stagnation"
    /\ ui = 2
    /\ Len(tile_paths) >= 2
    /\ Len(meta.tiles) >= Len(tile_paths) + 2
    /\ safe_dirname(url[1]) # safe_dirname(url[2])

\* an element matched by candidate i whose content height exceeds its
\* visible height
Scrollable(pg, i) == \E e \in pg.els : e.sel = i /\ e.scrollHeight > e.clientHeight

\* C12: get_scroll_container returns the first of its 8 candidates, in
\* their fixed order, that matches an element with content height strictly
\* above visible height, never a later one and never one whose heights are
\* equal, and returns (None, "window") exactly when no candidate qualifies.
C12_FirstScrollableCandidate ==
    rs.at = "returned"
        => /\ rs.out \in 0..8
           /\ rs.out # 0 => /\ Scrollable(rs.page, rs.out)
                            /\ \A j \in 1..(rs.out - 1) : ~Scrollable(rs.page, j)
                            /\ rs.label = feishu_selectors[rs.out]
           /\ (rs.out = 0) <=> (\A i \in 1..8 : ~Scrollable(rs.page, i))
           /\ (rs.out = 0) <=> (rs.label = "window")
           /\ Len(feishu_selectors) = 8
           /\ feishu_selectors[1] = ".bear-web-x-container.catalogue-opened.docx-in-wiki"
           /\ feishu_selectors[6] = "main"

C12_Witness ==
    /\ rs.at = "returned"
    /\ rs.out = 6
    /\ rs.label = "main"
    /\ \E e \in rs.page.els : e.sel = 3 /\ e.scrollHeight = e.clientHeight
    /\ Scrollable(rs.page, 7)

\* C17: safe_dirname returns only characters of [A-Za-z0-9._-] and at most
\* 120 of them, for every input.
C17_DirnameSafeAndShort ==
    dn.at = "returned"
        => /\ \A i \in 1..Len(dn.out) : dn.out[i] \in AllowedChars
           /\ Len(dn.out) <= 120

C17_Witness ==
    /\ dn.at = "returned"
    /\ Len(dn.arg) > 128
    /\ Len(dn.out) = 120
    /\ \E i \in 1..Len(dn.arg) : dn.arg[i] \notin AllowedChars

\* the reference: one leading scheme removed
RefNoScheme(u) ==
    IF Len(u) >= 7 /\ SubSeq(u, 1, 7) = <<"h","t","t","p",":","/","/">>
    THEN [i \in 1..(Len(u) - 7) |-> u[i + 7]]
    ELSE IF Len(u) >= 8 /\ SubSeq(u, 1, 8) = <<"h","t","t","p","s",":","/","/">>
    THEN [i \in 1..(Len(u) - 8) |-> u[i + 8]]
    ELSE u

\* the reference: a position of the name is kept when its character is
\* allowed or opens a run of disallowed characters; the j-th kept position
\* gives the j-th character of the result, an opened run giving "_"
RefDirname(u) ==
    LET s == RefNoScheme(u)
        K == {i \in 1..Len(s) : s[i] \in AllowedChars \/ i = 1 \/ s[i - 1] \in AllowedChars}
        rank == [i \in K |-> Cardinality({k \in K : k <= i})]
    IN  [j \in 1..Min(120, Cardinality(K)) |->
            LET i == CHOOSE k \in K : rank[k] = j
            IN  IF s[i] \in AllowedChars THEN s[i] ELSE "_"]

\* C18: safe_dirname equals the reference (one leading http:// or https://
\* removed, every maximal run of disallowed characters replaced by one
\* underscore, the first 120 characters kept); the empty string and a bare
\* scheme give the empty string, and a trailing run of disallowed characters
\* gives a single trailing underscore.
C18_DirnameEqualsReference ==
    dn.at = "returned"
        => /\ dn.out = RefDirname(dn.arg)
           /\ dn.arg \in {<<>>, HttpPrefix, HttpsPrefix} => dn.out = <<>>
           /\ (/\ Len(dn.arg) \in 3..119
               /\ dn.arg[1] = "a"
               /\ dn.arg[Len(dn.arg)] \notin AllowedChars
               /\ dn.arg[Len(dn.arg) - 1] \notin AllowedChars)
                 => /\ dn.out[Len(dn.out)] = "_"
                    /\ dn.out[Len(dn.out) - 1] # "_"

C18_Witness ==
    /\ dn.at = "returned"
    /\ HasPrefix(dn.arg, HttpsPrefix)
    /\ Len(dn.arg) \in 11..119
    /\ dn.arg[9] = "a"
    /\ dn.arg[Len(dn.arg)] = " "
    /\ dn.arg[Len(dn.arg) - 1] = "/"
    /\ dn.out[Len(dn.out)] = "_"
    /\ Len(dn.out) = 2

StitchEnded == st.at \in {"returned", "raised"}

\* the height as the claim states it, tile by tile
RECURSIVE ClaimedHeight(_, _, _, _)
ClaimedHeight(hs, k, top, bottom) ==
    IF k = 0 THEN 0
    ELSE ClaimedHeight(hs, k - 1, top, bottom)
         + Max(1, hs[k].h - (IF k # 1 THEN top ELSE 0) - (IF k # Len(hs) THEN bottom ELSE 0))

\* the height as the tests compute it
RECURSIVE TestHeight(_, _, _, _)
TestHeight(hs, k, top, bottom) ==
    IF k = 1 THEN hs[1].h ELSE TestHeight(hs, k - 1, top, bottom) + (hs[k].h - top - bottom)

Unclamped(hs, top, bottom) ==
    \A k \in DOMAIN hs :
        hs[k].h - (IF k # 1 THEN top ELSE 0) - (IF k # Len(hs) THEN bottom ELSE 0) >= 1

\* C13: the canvas of a non-empty tile list is as wide as the widest tile and
\* as high as the sum of the tiles' heights, each less overlap_top unless
\* first and less overlap_bottom unless last and floored at 1; when no tile
\* is floored this is h1 plus the sum over the later tiles of
\* h - overlap_top - overlap_bottom.
C13_CanvasSize ==
    st.at # "idle" /\ st.canvas # NoImage
        => /\ st.tiles # <<>>
           /\ \A k \in DOMAIN st.tiles : st.tiles[k].w <= st.canvas.w
           /\ \E k \in DOMAIN st.tiles : st.tiles[k].w = st.canvas.w
           /\ st.canvas.h = ClaimedHeight(st.tiles, Len(st.tiles), st.top, st.bottom)
           /\ Unclamped(st.tiles, st.top, st.bottom)
                => st.canvas.h = TestHeight(st.tiles, Len(st.tiles), st.top, st.bottom)

C13_Witness ==
    /\ st.at = "returned"
    /\ Len(st.tiles) = 3
    /\ st.tiles[1].w # st.tiles[2].w
    /\ st.tiles[2].h = 1
    /\ st.top = 1
    /\ st.bottom = 1
    /\ st.saved = st.canvas

\* C14: a call with no tiles ends with the "No tiles to stitch" error, with
\* no canvas made and no file written, whatever the overlaps.
C14_EmptyListRaises ==
    st.at # "idle" /\ st.tiles = <<>>
        => /\ st.canvas = NoImage
           /\ st.saved = NoImage
           /\ st.at \in {"called", "opened", "raised"}
           /\ st.at = "raised" => st.err = "No tiles to stitch"

C14_Witness ==
    /\ st.at = "raised"
    /\ st.tiles = <<>>
    /\ st.top = 3
    /\ st.bottom = 1
    /\ st.err = "No tiles to stitch"

\* C15: a single tile is pasted whole and the image has exactly its width
\* and height, whatever the overlaps.
C15_SingleTileUnchanged ==
    st.at # "idle" /\ Len(st.tiles) = 1
        => /\ st.at = "raised" => st.err \in {"cannot open tile", "cannot save"}
           /\ st.canvas # NoImage => st.canvas = st.tiles[1]
           /\ st.pieces # <<>>
                => st.pieces = <<[y |-> 0, w |-> st.tiles[1].w, h |-> st.tiles[1].h,
                                  box |-> [left |-> 0, upper |-> 0, right |-> st.tiles[1].w,
                                           lower |-> st.tiles[1].h]]>>
           /\ st.saved # NoImage => st.saved = st.tiles[1]

C15_Witness ==
    /\ st.at = "returned"
    /\ Len(st.tiles) = 1
    /\ st.tiles[1].h = 1
    /\ st.top = 3
    /\ st.bottom = 3
    /\ st.saved = st.tiles[1]

\* C16: when the call has ended, by return or by an error, no tile it
\* opened is still open.
C16_TilesReleased == StitchEnded => st.open = {}

\* C19: every page_meta.json of the session and meta.json are written once
\* and never overwritten, a page_meta.json only when its URL's loop is over
\* (the run goes on, or ends right after it), meta.json only when all URLs
\* are done, also when
\* the URL list repeats a URL or holds two URLs of the same sanitized name.
C19_ManifestsWriteOnce ==
    /\ \A k \in DOMAIN url :
            PageMetaPath(url[k]) \in DOMAIN fs
                => /\ fs[PageMetaPath(url[k])].writes = 1
                   /\ ui > k \/ pc \in {"done", "failed"}
    /\ MetaPath \in DOMAIN fs => fs[MetaPath].writes = 1 /\ pc = "done"

\* the page manifest of the URL just completed has been written
PageDone == pc \in {"goto", "close"} /\ ui > 1

\* what the page reports as the content height of the scroll target
ContentHeight(d, c) ==
    IF c = 0 THEN d.page.docHeight ELSE (CHOOSE e \in d.page.els : e.sel = c).scrollHeight

\* C20: the page_meta.json of a URL holds the viewport set on the page, the
\* content height read after load capped at cap_height, and the paths of
\* the tiles captured for that URL, in capture order.
C20_PageMetaRoundTrip ==
    PageDone
        => LET u == url[ui - 1]
               pm == fs[PageMetaPath(u)].data
               h == ContentHeight(doc, container)
           IN  /\ pm.url = u
               /\ pm.viewport = viewport
               /\ pm.total_height = (IF h < opt.cap_height THEN h ELSE opt.cap_height)
               /\ Len(pm.tiles) = obs.scrolls + 1 - (IF obs.exit = "stagnation" THEN 1 ELSE 0)
               /\ Len(pm.tiles) <= Len(meta.tiles)
               /\ \A k \in DOMAIN pm.tiles :
                    LET r == meta.tiles[Len(meta.tiles) - Len(pm.tiles) + k]
                    IN  /\ r.url = u
                        /\ r.tile = pm.tiles[k]
                        /\ pm.tiles[k] \in DOMAIN fs

C20_Witness ==
    /\ PageDone
    /\ ui = 3
    /\ ContentHeight(doc, container) > opt.cap_height
    /\ fs[PageMetaPath(url[2])].data.total_height = opt.cap_height
    /\ Len(fs[PageMetaPath(url[2])].data.tiles) >= 2
    /\ safe_dirname(url[1]) # safe_dirname(url[2])

\* the tile files a step wrote
ShotsOf(f, g) == {p \in DOMAIN g : Len(p) = 3 /\ (p \notin DOMAIN f \/ g[p] # f[p])}

\* C21: a step appends a record to meta's tiles exactly when it takes a
\* screenshot, and the record holds the URL being processed, the path of
\* the file written, the offset the scroll target had in the pictured
\* document and the viewport height; the URLs are taken in input order, and
\* the meta.json written at the end of a run holds the list.
C21_MetaTilesFlatList ==
    [][ LET n == Len(meta.tiles)
            p == <<safe_dirname(url[ui]), "tiles",
                   <<"tile_">> \o FourDigits(Len(tile_paths) + 1) \o <<".png">>>>
        IN  /\ pc # "start"
                => IF Len(meta'.tiles) = n
                   THEN /\ meta'.tiles = meta.tiles
                        /\ fs' # fs => ShotsOf(fs, fs') = {}
                   ELSE /\ meta'.tiles =
                              Append(meta.tiles,
                                     [url |-> url[ui], tile |-> p,
                                      y |-> IF container = 0 THEN fs'[p].data.winY
                                            ELSE fs'[p].data.elY[container],
                                      height |-> viewport.height])
                        /\ tile_paths' = Append(tile_paths, p)
                        /\ DOMAIN fs' \ DOMAIN fs \subseteq {p}
                        /\ fs'[p].writes = (IF p \in DOMAIN fs THEN fs[p].writes ELSE 0) + 1
            /\ ui' >= ui
            /\ pc' = "done"
                  => /\ fs'[MetaPath].data.urls = url
                     /\ fs'[MetaPath].data.tiles = meta.tiles
                     /\ ui' = Len(url) + 1 ]_vars

C21_Witness ==
    /\ pc = "done"
    /\ Len(url) = 2
    /\ safe_dirname(url[1]) # safe_dirname(url[2])
    /\ Len(fs[MetaPath].data.tiles) >= 4
    /\ fs[MetaPath].data.tiles[1].url = url[1]
    /\ fs[MetaPath].data.tiles[Len(meta.tiles)].url = url[2]
    /\ fs[MetaPath].data.tiles[Len(meta.tiles)].y > 0

\* C22: a screenshot that raises ends the run there: no record and no path
\* is added for that tile, and every file written before it, the tiles of
\* this URL and of the earlier ones, is still on disk as it was.
C22_ScreenshotErrorKeepsTiles ==
    [][ /\ (pc # "failed" /\ pc' = "failed" /\ obs'.exit = "screenshot error")
              => /\ pc \in {"first", "loop"}
                 /\ meta' = meta
                 /\ tile_paths' = tile_paths
                 /\ idx' = idx
                 /\ fs' = fs
                 /\ \A k \in DOMAIN meta.tiles : meta.tiles[k].tile \in DOMAIN fs'
                 /\ \A k \in DOMAIN tile_paths : tile_paths[k] \in DOMAIN fs'
        /\ pc = "failed" => pc' = "failed" ]_vars

C22_Witness ==
    /\ pc = "failed"
    /\ obs.exit = "screenshot error"
    /\ ui = 2
    /\ safe_dirname(url[1]) # safe_dirname(url[2])
    /\ Len(tile_paths) >= 2
    /\ Len(meta.tiles) >= Len(tile_paths) + 2
    /\ \A k \in DOMAIN meta.tiles : meta.tiles[k].tile \in DOMAIN fs

CeilDiv(a, b) == (a + b - 1) \div b

Dist(a, b) == IF a >= b THEN a - b ELSE b - a

\* the visible height of the scroll target
VisibleHeight(d, c) ==
    IF c = 0 THEN viewport.height ELSE (CHOOSE e \in d.page.els : e.sel = c).clientHeight

\* the loop of a URL has ended, below the tile cap, on a static surface as
\* high as the viewport that started at offset 0, with an overlap below
\* the viewport height
StaticRunEnded ==
    /\ pc = "after"
    /\ doc.page.kind = "static"
    /\ VisibleHeight(doc, container) = opt.height
    /\ ContentHeight(doc, container) >= opt.height
    /\ obs.first_y = 0
    /\ opt.tile_overlap >= 0
    /\ opt.tile_overlap < opt.height
    /\ Len(tile_paths) < max_tiles

\* C24 as stated: on such a surface the number of tiles differs from
\* ceil(H / (V - overlap)) by at most 1.
C24_TileCountNearCeil ==
    StaticRunEnded
        => Dist(Len(tile_paths),
                CeilDiv(ContentHeight(doc, container), opt.height - opt.tile_overlap)) <= 1

\* C24 amended: on such a surface the number of tiles is
\* 1 + ceil((H - V) / (V - overlap)), which differs from
\* ceil(H / (V - overlap)) by at most 1 when 2 * overlap <= V.
C24_TileCountExact ==
    StaticRunEnded
        => /\ Len(tile_paths)
                = 1 + CeilDiv(ContentHeight(doc, container) - opt.height,
                              opt.height - opt.tile_overlap)
           /\ 2 * opt.tile_overlap <= opt.height
                => Dist(Len(tile_paths),
                        CeilDiv(ContentHeight(doc, container),
                                opt.height - opt.tile_overlap)) <= 1

C24_Witness ==
    /\ StaticRunEnded
    /\ container = 0
    /\ ContentHeight(doc, container) = 7
    /\ opt.height = 3
    /\ opt.tile_overlap = 1
    /\ Len(tile_paths) = 3
    /\ obs.exit = "stagnation"

\* C23: a navigation failure ends the whole run only in an invocation with
\* one URL; with several URLs the run goes on, so it is never left stopped
\* at the failure.
C23_NavigationFailureIsLocal ==
    (pc = "failed" /\ obs.exit = "navigation error") => Len(url) = 1

\* C25: with a scale other than 1.0, every tile is a picture of a document
\* whose zoom is the scale.
C25_ZoomAppliedAtCapture ==
    opt.scale # 100
        => \A p \in DOMAIN TileFiles(fs) : fs[p].data.zoom = opt.scale

RECURSIVE PieceSum(_, _)
PieceSum(ps, k) == IF k = 0 THEN 0 ELSE PieceSum(ps, k - 1) + ps[k].h

\* C26: when all tiles are pasted, each piece is as high as the height its
\* tile added to the canvas, each piece lies right below the pieces before
\* it, and the last piece ends at the bottom of the canvas.
C26_TilesFillCanvas ==
    (st.at \in {"pasting", "saved", "returned"} /\ st.i > Len(st.tiles))
        => /\ Len(st.pieces) = Len(st.tiles)
           /\ \A k \in DOMAIN st.pieces :
                /\ st.pieces[k].h
                      = ClaimedHeight(st.tiles, k, st.top, st.bottom)
                          - ClaimedHeight(st.tiles, k - 1, st.top, st.bottom)
                /\ st.pieces[k].y = PieceSum(st.pieces, k - 1)
           /\ st.y_offset = st.canvas.h

\* a step of the loop that captured a tile after a scroll by which the
\* surface moved by at most the amount asked for
ObedientCapture ==
    /\ pc = "loop"
    /\ Len(meta'.tiles) = Len(meta.tiles) + 1
    /\ obs'.last.after - obs'.last.before <= obs'.last.amount

\* the surfaces that never move by more than the amount asked for when a
\* tile follows: the clamped ones, the test double, and the drifting one
\* when it is asked for a row or more
MovesAtMostDelta ==
    \/ doc.page.kind \in {"static", "mock"}
    \/ doc.page.kind = "drift" /\ opt.height - opt.tile_overlap >= 1

\* C27: when the surface moves by at most the amount asked for, a tile lies
\* at most viewport_height - tile_overlap below the tile before it; so,
\* with tile_overlap >= 0, when the loop of a URL has ended every row from
\* the top of its first tile to the bottom of its last is inside a tile.
C27_NoGapBetweenTiles ==
    [][ /\ ObedientCapture
            => /\ meta.tiles[Len(meta.tiles)].url = url[ui]
               /\ meta'.tiles[Len(meta'.tiles)].y - meta.tiles[Len(meta.tiles)].y
                      <= opt.height - opt.tile_overlap
        /\ (pc = "after" /\ MovesAtMostDelta /\ opt.tile_overlap >= 0)
            => \A r \in UrlTiles[1].y..(UrlTiles[Len(UrlTiles)].y + opt.height - 1) :
                  \E k \in DOMAIN UrlTiles :
                      UrlTiles[k].y <= r /\ r < UrlTiles[k].y + opt.height ]_vars

C27_Witness ==
    /\ pc = "after"
    /\ doc.page.kind = "static"
    /\ opt.height = 3
    /\ opt.tile_overlap = 1
    /\ Len(tile_paths) = 3
    /\ UrlTiles[3].y - UrlTiles[2].y = 2
    /\ UrlTiles[3].y + opt.height - 1 >= 6

====
